---- MODULE Spec2Model ----
(***************************************************************************)
(* BioSync smart emergency health card.                                    *)
(*                                                                         *)
(* State machines over one set of variables:                               *)
(*   Spec          services/geminiService.ts: getHealthInsight and         *)
(*                 getCareChainSummary, their session caches and           *)
(*                 callWithRetry, with several calls in flight at once.    *)
(*   TimelineSpec  CareChainView: the persisted timeline in localStorage,  *)
(*                 handleSaveEntry, window.deleteMedicalRecord and the     *)
(*                 page reload that re-reads storage.                      *)
(*   CardSpec      EmergencyCard: the query string its QR effect encodes   *)
(*                 for a profile.                                          *)
(*   FormSpec      RegistrationForm: the change handlers, the BMI effect   *)
(*                 with calculateBMI in binary64 arithmetic, validate and  *)
(*                 handleSubmit.                                           *)
(*   RetrySpec     callWithRetry on its own, with any retry budget and     *)
(*                 delay, every attempt and every timer coming to an end.  *)
(*   FetchSpec     CareChainView from its mount to the end of its summary  *)
(*                 fetch, with getCareChainSummary as in Spec.              *)
(*   FilterSpec    CareChainView: the category filter and the search term  *)
(*                 applied to the loaded events.                           *)
(*                                                                         *)
(* Strings that the code concatenates or compares are sequences of         *)
(* one-character strings, so that concatenation is \o and two different    *)
(* inputs can yield the same key.  Texts that the code only passes along   *)
(* (service answers, fallback literals) are TLA+ strings.                  *)
(***************************************************************************)
EXTENDS Integers, Sequences, FiniteSets

VARIABLES
    insightCache,   \* geminiService.ts:7   Map<string,string>, as a function on its keys
    summaryCache,   \* geminiService.ts:8
    calls,          \* the invocations of the two exported operations
    stTimeline,     \* localStorage['biosync_timeline']
    stLastUpdated,  \* localStorage['biosync_timeline_last_updated']
    events,         \* CareChainView state `events` when it is an array
    eventsShape,    \* "array", or "object" when `events` holds a JSON value that is no array
    lastUpdated,    \* CareChainView state `lastUpdated`
    reloadPending,  \* window.location.reload() was called, the page is not yet replaced
    clock,          \* the latest reading of the system clock (Date.now() does not go back)
    wiped,          \* history: the id strings that a written confirmed delete removed
                    \* and that no save has created again since
    cardData,       \* EmergencyCard prop `data`
    cardParams,     \* the URLSearchParams the QR effect built last, as a function on its keys
    cardUrl,        \* the text the QR effect encoded last
    formData,       \* RegistrationForm state `formData`
    errors,         \* RegistrationForm state `errors`, as a function on its keys
    effectPending,  \* the BMI effect is scheduled and has not run yet
    onSaveCalls,    \* history: the arguments of the onSave calls made by the latest handler
    lastEvent,      \* history: "mount", "change" or "submit", the latest handler of the form
    filter,         \* CareChainView state `filter`
    searchTerm,     \* CareChainView state `searchTerm`
    filteredEvents, \* the list the latest render computed (part_001:135)
    summary,        \* CareChainView state `summary`
    loadingSummary, \* CareChainView state `loadingSummary`
    fetchPc,        \* the position of the latest fetchSummary() of the view
    helper,         \* one invocation of callWithRetry on its own
    lastOp          \* history: the last handler of the view that ran, its id argument,
                    \* how many stored events that id matched and which setItem calls
                    \* it completed

svcVars == <<insightCache, summaryCache, calls>>
tlVars  == <<stTimeline, stLastUpdated, events, eventsShape, lastUpdated, reloadPending,
             clock, wiped, lastOp>>
cardVars == <<cardData, cardParams, cardUrl>>
formVars == <<formData, errors, effectPending, onSaveCalls, lastEvent>>
filterVars == <<filter, searchTerm, filteredEvents>>
fetchVars == <<summary, loadingSummary, fetchPc>>
vars    == <<insightCache, summaryCache, calls,
             stTimeline, stLastUpdated, events, eventsShape, lastUpdated, reloadPending,
             clock, wiped, cardData, cardParams, cardUrl,
             formData, errors, effectPending, onSaveCalls, lastEvent,
             filter, searchTerm, filteredEvents, summary, loadingSummary, fetchPc,
             helper, lastOp>>

(***************************************************************************)
(* Bounds                                                                  *)
(***************************************************************************)
MaxCalls == 2      \* invocations of the service operations in one session
MaxEvents == 2     \* events the store may hold
MaxClock == 2      \* readings of Date.now() / dates range over 1..MaxClock
MaxRetries == 2    \* retry budgets callWithRetry is invoked with range over 0..MaxRetries

CallIds == 1..MaxCalls

(***************************************************************************)
(* JavaScript helpers                                                      *)
(***************************************************************************)
\* the value undefined where a string is expected: no sequence of characters
Undefined == << "undefined" >>

\* Array.prototype.join(sep) on an array of strings
RECURSIVE Join(_, _)
Join(strs, sep) ==
    IF Len(strs) = 0 THEN <<>>
    ELSE IF Len(strs) = 1 THEN strs[1]
    ELSE strs[1] \o sep \o Join(Tail(strs), sep)

\* x || d for an optional string x (undefined and '' are falsy)
OrElse(x, d) == IF x = Undefined \/ x = <<>> THEN d ELSE x

\* t || d for a text (an absent or empty text is falsy)
TextOr(t, d) == IF t = "" THEN d ELSE t

\* String(id): a number and the string of its digits give the same string
JSString(id) == id.digits

(***************************************************************************)
(* Inputs of the service operations                                        *)
(***************************************************************************)
Profile(al, ch) ==
    [fullName |-> <<"n">>, bloodGroup |-> <<"O", "+">>, allergies |-> al,
     chronicDiseases |-> ch, currentMedications |-> <<"m">>]

\* two profiles a user can type into the free-text fields
Profiles == { Profile(<<"a", "_", "b">>, <<"c">>), Profile(<<"a">>, <<"b", "_", "c">>) }

StrId(d) == [type |-> "string", digits |-> d]
NumId(d) == [type |-> "number", digits |-> d]

Event(id, date, lm) == [id |-> id, date |-> date, lastModified |-> lm]

EventLists ==
    { <<>>,
      << Event(StrId(<<"1">>), 2, <<"F">>) >>,
      << Event(StrId(<<"2">>), 2, <<"F">>), Event(StrId(<<"1">>), 1, Undefined) >> }

\* the keys the insight operation reads of its input (geminiService.ts:31)
InsightFingerprint(data) ==
    <<data.fullName, data.bloodGroup, data.allergies, data.chronicDiseases,
      data.currentMedications>>

\* the keys the summary operation reads of its input (geminiService.ts:77)
SummaryFingerprint(evs) ==
    [i \in 1..Len(evs) |-> <<JSString(evs[i].id), OrElse(evs[i].lastModified, <<>>)>>]

\* geminiService.ts:31
InsightKey(data) ==
    <<"insight">> \o <<"_">> \o data.fullName \o <<"_">> \o data.bloodGroup \o <<"_">>
        \o data.allergies \o <<"_">> \o data.chronicDiseases \o <<"_">>
        \o data.currentMedications

\* geminiService.ts:77
SummaryKey(evs) ==
    <<"summary">> \o <<"_">> \o
        Join([i \in 1..Len(evs) |->
                JSString(evs[i].id) \o OrElse(evs[i].lastModified, <<>>)], <<"_">>)

KeyOf(op, inp) == IF op = "insight" THEN InsightKey(inp) ELSE SummaryKey(inp)
FingerprintOf(op, inp) ==
    IF op = "insight" THEN InsightFingerprint(inp) ELSE SummaryFingerprint(inp)
InputsOf(op) == IF op = "insight" THEN Profiles ELSE EventLists
Ops == {"insight", "summary"}

(***************************************************************************)
(* The external service: what generateContent can do                       *)
(***************************************************************************)
\* response.text of a fulfilled request; "" stands for an empty or absent text
Texts == {"t1", ""}

\* A rejected request throws a value.  What the code reads of it:
\*   json    what JSON.stringify(error) does: the text it returns, classified by the
\*           marker the text holds after toUpperCase(); or "undefined" (the value is
\*           undefined, a function or a symbol); or "throws" (its toJSON throws the
\*           value itself)
\*   status  error.status
Thrown(json, status) == [json |-> json, status |-> status]

ApiQuotaError  == Thrown("429", 429)                  \* {"status":429,...}
HiddenStatus   == Thrown("{}", 429)                   \* status is inherited or not enumerable
ServerError    == Thrown("{}", 500)
ThrownUndef    == Thrown("undefined", 0)              \* throw undefined
ThrowingToJSON == Thrown("throws", 0)                 \* { toJSON() { throw this } }
NoError        == Thrown("none", 0)

\* the TypeError the runtime raises for undefined.toUpperCase(); it serialises to {}
TypeErrorValue == Thrown("{}", 0)

Errors == {ApiQuotaError, HiddenStatus, ServerError, ThrownUndef, ThrowingToJSON}

\* JSON.stringify(error).toUpperCase(): a text, or the value the expression throws
Stringified(e) ==
    CASE e.json = "throws"    -> [ok |-> FALSE, thrown |-> e]
      [] e.json = "undefined" -> [ok |-> FALSE, thrown |-> TypeErrorValue]
      [] OTHER                -> [ok |-> TRUE, text |-> e.json]

\* errorStr.includes('429') || errorStr.includes('RESOURCE_EXHAUSTED')
HasQuotaMarker(text) == text \in {"429", "resource_exhausted"}

(***************************************************************************)
(* callWithRetry (geminiService.ts:13-27)                                  *)
(***************************************************************************)
DefaultRetries == 1
DefaultDelay == 2000

\* geminiService.ts:18, given that line 17 produced a text
IsQuotaError(e) == HasQuotaMarker(Stringified(e).text) \/ e.status = 429

\* callWithRetry without its retry: every error leaves at once
RetryCatch_NoRetry(e, retries) ==
    LET s == Stringified(e) IN
    IF ~s.ok THEN [retry |-> FALSE, thrown |-> s.thrown]
    ELSE [retry |-> FALSE, thrown |-> e]

\* callWithRetry retrying whatever the error is
RetryCatch_RetryAny(e, retries) ==
    LET s == Stringified(e) IN
    IF ~s.ok THEN [retry |-> FALSE, thrown |-> s.thrown]
    ELSE IF retries > 0 THEN [retry |-> TRUE, thrown |-> NoError]
    ELSE [retry |-> FALSE, thrown |-> e]

\* The catch block of callWithRetry: what it does with `error` when `retries` are left.
\* [retry |-> TRUE] or [retry |-> FALSE, thrown |-> the value that leaves the function]
RetryCatch(e, retries) ==
    LET s == Stringified(e) IN
    IF ~s.ok THEN [retry |-> FALSE, thrown |-> s.thrown]
    ELSE IF IsQuotaError(e) /\ retries > 0 THEN [retry |-> TRUE, thrown |-> NoError]
    ELSE [retry |-> FALSE, thrown |-> e]

(***************************************************************************)
(* The literals of the two operations                                      *)
(***************************************************************************)
InsightDefault  == "No actionable insights available."
InsightQuota    == "PROTOCOL: SYSTEM CAPACITY REACHED."
InsightGeneric  == "Standard medical precautions advised"
SummaryEmpty    == "No records found / History empty / Monitoring required"
SummaryDefault  == "Status stable / No major updates / Review history"
SummaryQuota    == "Analysis service offline / Review individual logs / Quota limit reached"
SummaryGeneric  == "Review full history / AI summary temporarily unavailable"

DefaultText(op) == IF op = "insight" THEN InsightDefault ELSE SummaryDefault
QuotaText(op)   == IF op = "insight" THEN InsightQuota ELSE SummaryQuota
GenericText(op) == IF op = "insight" THEN InsightGeneric ELSE SummaryGeneric

\* The catch block of the operation (geminiService.ts:63-70 and 110-117):
\* [returns |-> TRUE, text, how] or [returns |-> FALSE, thrown]
OperationCatch(op, e) ==
    LET s == Stringified(e) IN
    IF ~s.ok THEN [returns |-> FALSE, text |-> "", how |-> "threw", thrown |-> s.thrown]
    ELSE IF HasQuotaMarker(s.text)
         THEN [returns |-> TRUE, text |-> QuotaText(op), how |-> "quotaFallback",
               thrown |-> NoError]
         ELSE [returns |-> TRUE, text |-> GenericText(op), how |-> "genericFallback",
               thrown |-> NoError]

(***************************************************************************)
(* The two operations as processes                                         *)
(*                                                                         *)
(* pc: "idle"      not invoked yet                                         *)
(*     "awaiting"  inside callWithRetry, awaiting fn() (line 15)           *)
(*     "backoff"   inside callWithRetry, awaiting the timer (line 22)      *)
(*     "returned"  the promise of the operation is fulfilled with `result` *)
(*     "rejected"  the promise of the operation is rejected                *)
(* History kept with each call: attempts (invocations of fn), waited (the  *)
(* delays slept), errs (the values fn rejected with), response (the text   *)
(* fn fulfilled with), how (the path that produced the result), wrote      *)
(* (the call changed a cache).                                             *)
(***************************************************************************)
IdleCall ==
    [pc |-> "idle", op |-> "none", inp |-> <<>>, retries |-> 0, delay |-> 0,
     attempts |-> 0, waited |-> <<>>, errs |-> <<>>, response |-> "none",
     result |-> "", how |-> "none", wrote |-> FALSE]

Cache(op) == IF op = "insight" THEN insightCache ELSE summaryCache

\* Map.prototype.set
MapSet(m, k, v) == [x \in DOMAIN m \cup {k} |-> IF x = k THEN v ELSE m[x]]

Finished(c) == calls[c].pc \in {"returned", "rejected"}

\* getCareChainSummary without its first line
Begin_NoEmptyCheck(op, inp) ==
    IF KeyOf(op, inp) \in DOMAIN Cache(op)
    THEN [IdleCall EXCEPT !.pc = "returned", !.op = op, !.inp = inp,
                          !.result = Cache(op)[KeyOf(op, inp)], !.how = "hit"]
    ELSE [IdleCall EXCEPT !.pc = "awaiting", !.op = op, !.inp = inp,
                          !.retries = DefaultRetries, !.delay = DefaultDelay,
                          !.attempts = 1]

\* What the operation does between its invocation and its first await
\* (geminiService.ts:29-51 and 73-98).
Begin(op, inp) ==
    IF op = "summary" /\ Len(inp) = 0
    THEN [IdleCall EXCEPT !.pc = "returned", !.op = op, !.inp = inp,
                          !.result = SummaryEmpty, !.how = "empty"]
    ELSE IF KeyOf(op, inp) \in DOMAIN Cache(op)
    THEN [IdleCall EXCEPT !.pc = "returned", !.op = op, !.inp = inp,
                          !.result = Cache(op)[KeyOf(op, inp)], !.how = "hit"]
    ELSE [IdleCall EXCEPT !.pc = "awaiting", !.op = op, !.inp = inp,
                          !.retries = DefaultRetries, !.delay = DefaultDelay,
                          !.attempts = 1]

\* getHealthInsight(data) / getCareChainSummary(events) is invoked
Invoke(c, op, inp) ==
    /\ calls[c].pc = "idle"
    /\ \A d \in CallIds : d < c => calls[d].pc # "idle"
    /\ calls' = [calls EXCEPT ![c] = Begin(op, inp)]
    /\ UNCHANGED <<insightCache, summaryCache>>

\* The text the operation caches and returns for a fulfilled request
\* (geminiService.ts:60 and 107)
ResponseText(op, text) == TextOr(text, DefaultText(op))

\* The cache after a fulfilled request (geminiService.ts:61 and 108)
CacheAfterSuccess(cache, key, text) == MapSet(cache, key, text)

\* fn() fulfils with a response whose text is `text` (lines 15, 60-62 / 107-109)
Fulfil(c, text) ==
    LET call == calls[c]
        key  == KeyOf(call.op, call.inp)
        t    == ResponseText(call.op, text)
    IN /\ call.pc = "awaiting"
       /\ insightCache' = IF call.op = "insight"
                           THEN CacheAfterSuccess(insightCache, key, t) ELSE insightCache
       /\ summaryCache' = IF call.op = "summary"
                           THEN CacheAfterSuccess(summaryCache, key, t) ELSE summaryCache
       /\ calls' = [calls EXCEPT ![c] =
                        [call EXCEPT !.pc = "returned", !.result = t, !.how = "fresh",
                                     !.response = text,
                                     !.wrote = CacheAfterSuccess(Cache(call.op), key, t)
                                                 # Cache(call.op)]]

\* a catch block that stores the text it returns
CacheAfterFailure_Stored(cache, key, outcome) == MapSet(cache, key, outcome.text)

\* The cache after the catch block of the operation has produced its outcome
\* (geminiService.ts:63-70 and 110-117 do not touch it)
CacheAfterFailure(cache, key, outcome) == cache

\* fn() rejects with `e` (lines 16-25, then 63-70 / 110-117 when the error leaves
\* callWithRetry)
Reject(c, e) ==
    LET call == calls[c]
        key  == KeyOf(call.op, call.inp)
        r    == RetryCatch(e, call.retries)
        o    == OperationCatch(call.op, r.thrown)
    IN /\ call.pc = "awaiting"
       /\ IF r.retry
          THEN /\ calls' = [calls EXCEPT ![c] =
                               [call EXCEPT !.pc = "backoff", !.errs = Append(@, e)]]
               /\ UNCHANGED <<insightCache, summaryCache>>
          ELSE /\ calls' = [calls EXCEPT ![c] =
                               [call EXCEPT !.pc = IF o.returns THEN "returned" ELSE "rejected",
                                            !.errs = Append(@, e), !.result = o.text,
                                            !.how = o.how,
                                            !.wrote = CacheAfterFailure(Cache(call.op), key, o)
                                                        # Cache(call.op)]]
               /\ insightCache' = IF call.op = "insight"
                                   THEN CacheAfterFailure(insightCache, key, o)
                                   ELSE insightCache
               /\ summaryCache' = IF call.op = "summary"
                                   THEN CacheAfterFailure(summaryCache, key, o)
                                   ELSE summaryCache

\* a retry that waits the same delay again
Retry_FlatDelay(call) ==
    [call EXCEPT !.pc = "awaiting", !.retries = call.retries - 1,
                 !.attempts = call.attempts + 1,
                 !.waited = Append(call.waited, call.delay)]

\* the retry of callWithRetry (line 23): callWithRetry(fn, retries - 1, delay * 2)
Retry(call) ==
    [call EXCEPT !.pc = "awaiting", !.retries = call.retries - 1,
                 !.delay = call.delay * 2, !.attempts = call.attempts + 1,
                 !.waited = Append(call.waited, call.delay)]

\* the backoff timer fires (line 22) and the retry starts
TimerFires(c) ==
    /\ calls[c].pc = "backoff"
    /\ calls' = [calls EXCEPT ![c] = Retry(calls[c])]
    /\ UNCHANGED <<insightCache, summaryCache>>

(***************************************************************************)
(* callWithRetry invoked on its own, with a budget and a delay of the      *)
(* caller's choice.  budget and first keep the arguments of the invocation *)
(* pc: "idle", "awaiting" (line 15), "backoff" (line 22), "fulfilled"      *)
(* (line 15 returned) or "rejected" (line 25, or line 17 threw)            *)
(***************************************************************************)
IdleHelper ==
    [pc |-> "idle", budget |-> 0, first |-> 0, retries |-> 0, delay |-> 0, attempts |-> 0,
     waited |-> <<>>, errs |-> <<>>, response |-> "none", thrown |-> NoError]

\* callWithRetry(fn, r, d) up to its first await (lines 13-15)
CallWithRetry(r, d) ==
    /\ helper.pc = "idle"
    /\ helper' = [IdleHelper EXCEPT !.pc = "awaiting", !.budget = r, !.first = d,
                                    !.retries = r, !.delay = d, !.attempts = 1]

\* fn() fulfils: callWithRetry returns its value (line 15)
FnFulfils(text) ==
    /\ helper.pc = "awaiting"
    /\ helper' = [helper EXCEPT !.pc = "fulfilled", !.response = text]

\* fn() rejects with `e` (lines 16-25)
FnRejects(e) ==
    /\ helper.pc = "awaiting"
    /\ helper' = IF RetryCatch(e, helper.retries).retry
                  THEN [helper EXCEPT !.pc = "backoff", !.errs = Append(@, e)]
                  ELSE [helper EXCEPT !.pc = "rejected", !.errs = Append(@, e),
                                      !.thrown = RetryCatch(e, helper.retries).thrown]

\* the timer of line 22 fires and line 23 runs
HelperTimerFires ==
    /\ helper.pc = "backoff"
    /\ helper' = Retry(helper)

(***************************************************************************)
(* CareChainView: the persisted timeline                                   *)
(***************************************************************************)
\* Number.prototype.toString() for the numbers of the model
RECURSIVE NumberToString(_)
NumberToString(n) ==
    LET digit == <<"0", "1", "2", "3", "4", "5", "6", "7", "8", "9">>[(n % 10) + 1]
    IN IF n < 10 THEN <<digit>> ELSE NumberToString(n \div 10) \o <<digit>>

\* getNowTimestamp() (part_001:38-52) at clock reading `now`
GetNowTimestamp(now) == <<"F">> \o NumberToString(now)

\* a localStorage item: absent (getItem gives null) or a text
NoItem == [kind |-> "none", items |-> <<>>]
\* JSON.stringify(array of events)
JSONStringify(evs) == [kind |-> "array", items |-> evs]
\* a stored text that is no JSON
Malformed == [kind |-> "malformed", items |-> <<>>]

\* a stored text that is JSON but no array, such as {"a":1}
ObjectPayload == [kind |-> "object", items |-> <<>>]

\* JSON.parse(text): [ok |-> TRUE, array, value], or [ok |-> FALSE] when it throws;
\* `array` tells whether the value is an array, `value` holds its elements
JSONParse(item) ==
    IF item.kind = "array" THEN [ok |-> TRUE, array |-> TRUE, value |-> item.items]
    ELSE IF item.kind = "object" THEN [ok |-> TRUE, array |-> FALSE, value |-> <<>>]
    ELSE [ok |-> FALSE, array |-> FALSE, value |-> <<>>]

\* localStorage.getItem(k) || '[]' (part_001:69)
OrEmptyArray(item) == IF item.kind = "none" THEN JSONStringify(<<>>) ELSE item

\* The mount effect (part_001:56-63): the value of `events` after it has run: the
\* parsed value as it is, or the initial [] when there is no item or the parse throws
LoadEvents(item) ==
    IF item.kind # "none" /\ JSONParse(item).ok THEN JSONParse(item).value ELSE <<>>

LoadShape(item) ==
    IF item.kind # "none" /\ JSONParse(item).ok /\ ~JSONParse(item).array THEN "object"
    ELSE "array"

\* ... and of `lastUpdated` (ts = 0 stands for no item)
LoadLastUpdated(ts) == ts

\* the comparator of part_001:128, new Date(b.date).getTime() - new Date(a.date).getTime()
CompareDates(a, b) == b.date - a.date

\* Array.prototype.sort with that comparator: stable, ascending in the comparator
RECURSIVE InsertSorted(_, _)
InsertSorted(sorted, e) ==
    IF Len(sorted) = 0 THEN <<e>>
    ELSE IF CompareDates(sorted[Len(sorted)], e) <= 0 THEN Append(sorted, e)
    ELSE Append(InsertSorted(SubSeq(sorted, 1, Len(sorted) - 1), e), sorted[Len(sorted)])

RECURSIVE SortByDate(_)
SortByDate(evs) ==
    IF Len(evs) = 0 THEN <<>>
    ELSE InsertSorted(SortByDate(SubSeq(evs, 1, Len(evs) - 1)), evs[Len(evs)])

\* the filter comparing the ids as they are (rec.id !== id)
DeleteKeeps_Strict(rec, id) == rec.id # id

\* the predicate of the filter in part_001:70
DeleteKeeps(rec, id) == JSString(rec.id) # JSString(id)

\* part_001:70
UpdatedRecords(currentRecords, id) == SelectSeq(currentRecords, LAMBDA rec : DeleteKeeps(rec, id))

\* the size of a stored text, as far as it orders the payloads: no item, a text that
\* is no array, an array by the number of its events
PayloadSize(item) ==
    IF item.kind = "none" THEN 0 ELSE IF item.kind = "array" THEN 1 + Len(item.items) ELSE 1

\* Storage.setItem throws (QuotaExceededError) only when the write makes storage
\* grow.  `fail` names the setItem call of a handler that throws: "first" needs a
\* longer collection (of `count` events), "second" a longer marker after a
\* collection that is not shorter.
CanThrow(fail, count, newMarker) ==
    CASE fail = "none" -> TRUE
      [] fail = "first" -> 1 + count > PayloadSize(stTimeline)
      [] fail = "second" -> /\ 1 + count >= PayloadSize(stTimeline)
                            /\ Len(newMarker) > Len(stLastUpdated)

Failures == {"none", "first", "second"}

\* the setItem calls that completed
Wrote(fail) == IF fail = "first" THEN "none" ELSE IF fail = "second" THEN "timeline" ELSE "both"

\* the two setItem calls and the reload after them (part_001:71-73 and 129-132): a
\* call that throws leaves the handler, so what follows it does not run
WriteBoth(fail, newTimeline, newMarker) ==
    /\ stTimeline' = IF fail = "first" THEN stTimeline ELSE newTimeline
    /\ stLastUpdated' = IF fail = "none" THEN newMarker ELSE stLastUpdated
    /\ reloadPending' = (reloadPending \/ fail = "none")

\* a delete that goes on without looking at the answer to the prompt
DeleteFilters_Unprompted(confirmed, parsed) == parsed.ok /\ parsed.array

\* the delete reaches the setItem calls (part_001:67-70): the prompt was accepted,
\* JSON.parse did not throw and its value has a .filter
DeleteFilters(confirmed, parsed) == confirmed /\ parsed.ok /\ parsed.array

\* the handler adding the entry without sorting
UpdatedEvents_Unsorted(entry, evs) == <<entry>> \o evs

\* window.deleteMedicalRecord(id) (part_001:66-80); `confirmed` is what
\* window.confirm returns, `now` the clock.  The catch of line 75 takes a parse
\* error, the TypeError of .filter on a value that is no array, and a throwing
\* setItem alike.
DeleteMedicalRecord(id, confirmed, now, fail) ==
    LET parsed == JSONParse(OrEmptyArray(stTimeline))
        filters == DeleteFilters(confirmed, parsed)
    IN
    /\ IF filters
       THEN CanThrow(fail, Len(UpdatedRecords(parsed.value, id)), GetNowTimestamp(now))
       ELSE fail = "none"
    /\ lastOp' = [kind |-> "delete", id |-> id, confirmed |-> confirmed,
                  matched |-> Len(parsed.value) - Len(UpdatedRecords(parsed.value, id)),
                  wrote |-> IF filters THEN Wrote(fail) ELSE "none"]
    /\ wiped' = IF filters /\ Len(UpdatedRecords(parsed.value, id)) < Len(parsed.value)
                THEN wiped \cup {JSString(id)} ELSE wiped
    /\ clock' = IF filters /\ fail # "first" THEN now ELSE clock
    /\ IF filters
       THEN WriteBoth(fail, JSONStringify(UpdatedRecords(parsed.value, id)),
                      GetNowTimestamp(now))
       ELSE UNCHANGED <<stTimeline, stLastUpdated, reloadPending>>
    /\ UNCHANGED <<events, eventsShape, lastUpdated>>

\* the entry handleSaveEntry builds (part_001:116-126); date = 0 stands for a blank date
NewEntry(date, now) ==
    Event(StrId(NumberToString(now)), IF date = 0 THEN now ELSE date, GetNowTimestamp(now))

\* part_001:128
UpdatedEvents(entry, evs) == SortByDate(<<entry>> \o evs)

\* handleSaveEntry (part_001:112-133).  The form exists only while the view renders,
\* which it does not when `events` is no array (events.filter, part_001:135).  No
\* try surrounds the setItem calls: one that throws ends the handler.
HandleSaveEntry(date, now, fail) ==
    /\ eventsShape = "array"
    /\ Len(events) < MaxEvents
    /\ CanThrow(fail, 1 + Len(events), GetNowTimestamp(now))
    /\ lastOp' = [kind |-> "save", id |-> StrId(NumberToString(now)), confirmed |-> TRUE,
                  matched |-> Len(events) - Len(UpdatedRecords(events, StrId(NumberToString(now)))),
                  wrote |-> Wrote(fail)]
    /\ wiped' = IF fail = "first" THEN wiped ELSE wiped \ {NumberToString(now)}
    /\ clock' = now
    /\ WriteBoth(fail, JSONStringify(UpdatedEvents(NewEntry(date, now), events)),
                 GetNowTimestamp(now))
    /\ UNCHANGED <<events, eventsShape, lastUpdated>>

\* the page is replaced after window.location.reload(): the component mounts with
\* empty state and its mount effect reads storage (part_001:19-25, 55-63)
Reload ==
    /\ reloadPending
    /\ events' = LoadEvents(stTimeline)
    /\ eventsShape' = LoadShape(stTimeline)
    /\ lastUpdated' = LoadLastUpdated(stLastUpdated)
    /\ reloadPending' = FALSE
    /\ UNCHANGED <<stTimeline, stLastUpdated, clock, wiped, lastOp>>

\* the ids a caller can pass to window.deleteMedicalRecord
DeleteArgs ==
    { StrId(NumberToString(n)) : n \in 1..MaxClock } \cup { StrId(<<"8">>), NumId(<<"7">>) }

\* what localStorage can hold when the page is first opened
InitialStores ==
    { NoItem, Malformed, ObjectPayload,
      JSONStringify(<< Event(StrId(<<"9">>), 3, <<"F", "9">>),
                       Event(NumId(<<"8">>), 2, Undefined),
                       Event(StrId(<<"7">>), 1, <<"F", "7">>) >>) }

(***************************************************************************)
(* EmergencyCard: the card URL                                             *)
(***************************************************************************)
\* the keys of the query string, in the order of part_000:62-74
CardKeys == <<"n", "a", "bg", "al", "cc", "m", "s", "ec", "ht", "wt", "bmi">>

\* (x || d).toString() for an optional number x: no number is <<>>, the number n is
\* <<n>>; undefined and 0 are falsy
NumberOr(x, d) == IF x = <<>> \/ x = <<0>> THEN d ELSE NumberToString(x[1])

\* the same for the BMI, a number with one decimal kept in tenths: 187 is 18.7
TenthsOr(x, d) ==
    IF x = <<>> \/ x = <<0>> THEN d
    ELSE IF x[1] % 10 = 0 THEN NumberToString(x[1] \div 10)
    ELSE NumberToString(x[1] \div 10) \o <<".">> \o NumberToString(x[1] % 10)

\* the object given to new URLSearchParams (part_000:62-74)
CardParams(data) ==
    [n   |-> OrElse(data.fullName, <<"U", "n", "k", "n", "o", "w", "n">>),
     a   |-> NumberOr(data.age, <<"N", "/", "A">>),
     bg  |-> OrElse(data.bloodGroup, <<"-", "-">>),
     al  |-> OrElse(data.allergies, <<"N", "o", "n", "e">>),
     cc  |-> OrElse(data.chronicDiseases, <<"N", "o", "n", "e">>),
     m   |-> OrElse(data.currentMedications, <<"N", "o", "n", "e">>),
     s   |-> OrElse(data.pastSurgeries, <<"N", "o", "n", "e">>),
     ec  |-> OrElse(data.emergencyContact, <<>>),
     ht  |-> NumberOr(data.height, <<"N", "/", "A">>),
     wt  |-> NumberOr(data.weight, <<"N", "/", "A">>),
     bmi |-> TenthsOr(data.bmi, <<"N", "/", "A">>)]

\* application/x-www-form-urlencoded serialisation of one character
FormEncodeChar(ch) ==
    IF ch = "/" THEN <<"%", "2", "F">>
    ELSE IF ch = " " THEN <<"+">>
    ELSE IF ch = "+" THEN <<"%", "2", "B">>
    ELSE <<ch>>

RECURSIVE FormEncode(_)
FormEncode(str) ==
    IF Len(str) = 0 THEN <<>> ELSE FormEncodeChar(Head(str)) \o FormEncode(Tail(str))

\* key=value, for one key of the card
CardPair(params, k) ==
    LET key == [c \in {"n", "a", "bg", "al", "cc", "m", "s", "ec", "ht", "wt", "bmi"} |->
                    CASE c = "n" -> <<"n">> [] c = "a" -> <<"a">> [] c = "bg" -> <<"b", "g">>
                      [] c = "al" -> <<"a", "l">> [] c = "cc" -> <<"c", "c">>
                      [] c = "m" -> <<"m">> [] c = "s" -> <<"s">> [] c = "ec" -> <<"e", "c">>
                      [] c = "ht" -> <<"h", "t">> [] c = "wt" -> <<"w", "t">>
                      [] c = "bmi" -> <<"b", "m", "i">>]
    IN key[k] \o <<"=">> \o FormEncode(params[k])

\* URLSearchParams.prototype.toString()
ParamsToString(params) ==
    Join([i \in 1..Len(CardKeys) |-> CardPair(params, CardKeys[i])], <<"&">>)

\* `${baseUrl}/rescue.html?${params.toString()}` (part_000:76), the base URL left out
CardUrl(params) == <<"/", "r", "e", "s", "c", "u", "e", ".", "h", "t", "m", "l", "?">> \o ParamsToString(params)

\* the profiles the card is given: every field either falsy or set; the name may
\* hold a space, the blood group a plus sign, the age may be 0
CardProfiles ==
    [fullName : {<<>>, <<"A", " ", "B">>},
     age : {<<>>, <<0>>, <<30>>},
     bloodGroup : {<<>>, <<"O", "+">>},
     allergies : {<<>>, <<"x">>},
     chronicDiseases : {<<>>, <<"x">>},
     currentMedications : {<<>>, <<"x">>},
     pastSurgeries : {Undefined, <<"x">>},
     emergencyContact : {<<>>, <<"5", "5", "5", "1", "2", "3", "4", "5", "6", "7">>},
     height : {<<>>, <<160>>},
     weight : {<<>>, <<48>>},
     bmi : {<<>>, <<187>>}]

\* no card rendered: the state of the card in the other specifications
NoCard ==
    [fullName |-> <<>>, age |-> <<>>, bloodGroup |-> <<>>, allergies |-> <<>>,
     chronicDiseases |-> <<>>, currentMedications |-> <<>>, pastSurgeries |-> Undefined,
     emergencyContact |-> <<>>, height |-> <<>>, weight |-> <<>>, bmi |-> <<>>]

\* the QR effect (part_000:56-87), run once for the value of `data`; it does nothing
\* while the QRCode library or the element is missing
QREffect(available) ==
    /\ cardUrl = <<>>
    /\ IF available
       THEN /\ cardParams' = CardParams(cardData)
            /\ cardUrl' = CardUrl(CardParams(cardData))
       ELSE UNCHANGED <<cardParams, cardUrl>>
    /\ UNCHANGED cardData

(***************************************************************************)
(* Number: IEEE 754 binary64 arithmetic                                    *)
(*                                                                         *)
(* A natural number of any size is the sequence of its digits in base      *)
(* 2^15, lowest first, without leading zeros; a positive Number is         *)
(* [m, e], the value m * 2^e with 2^52 <= m < 2^53.                          *)
(***************************************************************************)
LimbBase == 2^15

RECURSIVE BigNat(_)
BigNat(n) == IF n = 0 THEN <<>> ELSE <<n % LimbBase>> \o BigNat(n \div LimbBase)

RECURSIVE BigToInt(_)
BigToInt(a) == IF a = <<>> THEN 0 ELSE a[1] + LimbBase * BigToInt(Tail(a))

RECURSIVE BigAddCarry(_, _, _)
BigAddCarry(a, b, c) ==
    IF a = <<>> /\ b = <<>> THEN (IF c = 0 THEN <<>> ELSE <<c>>)
    ELSE LET x == (IF a = <<>> THEN 0 ELSE a[1]) + (IF b = <<>> THEN 0 ELSE b[1]) + c
         IN <<x % LimbBase>> \o BigAddCarry(IF a = <<>> THEN <<>> ELSE Tail(a),
                                            IF b = <<>> THEN <<>> ELSE Tail(b),
                                            x \div LimbBase)

RECURSIVE BigTrim(_)
BigTrim(a) ==
    IF a = <<>> THEN <<>>
    ELSE IF a[Len(a)] = 0 THEN BigTrim(SubSeq(a, 1, Len(a) - 1))
    ELSE a

\* a < b
RECURSIVE BigLess(_, _)
BigLess(a, b) ==
    IF Len(a) # Len(b) THEN Len(a) < Len(b)
    ELSE IF a = <<>> THEN FALSE
    ELSE IF a[Len(a)] # b[Len(b)] THEN a[Len(a)] < b[Len(b)]
    ELSE BigLess(BigTrim(SubSeq(a, 1, Len(a) - 1)), BigTrim(SubSeq(b, 1, Len(b) - 1)))

\* a - b for a >= b
RECURSIVE BigSubBorrow(_, _, _)
BigSubBorrow(a, b, c) ==
    IF a = <<>> THEN <<>>
    ELSE LET x == a[1] - (IF b = <<>> THEN 0 ELSE b[1]) - c
         IN <<IF x < 0 THEN x + LimbBase ELSE x>> \o
            BigSubBorrow(Tail(a), IF b = <<>> THEN <<>> ELSE Tail(b), IF x < 0 THEN 1 ELSE 0)

BigSub(a, b) == BigTrim(BigSubBorrow(a, b, 0))

\* a * k + c for a digit k
RECURSIVE BigMulDigit(_, _, _)
BigMulDigit(a, k, c) ==
    IF a = <<>> THEN (IF c = 0 THEN <<>> ELSE <<c>>)
    ELSE LET x == a[1] * k + c
         IN <<x % LimbBase>> \o BigMulDigit(Tail(a), k, x \div LimbBase)

RECURSIVE BigMul(_, _)
BigMul(a, b) ==
    IF a = <<>> \/ b = <<>> THEN <<>>
    ELSE LET rest == BigMul(a, Tail(b))
         IN BigAddCarry(BigTrim(BigMulDigit(a, b[1], 0)),
                         IF rest = <<>> THEN <<>> ELSE <<0>> \o rest, 0)

RECURSIVE BitLength(_)
BitLength(n) == IF n = 0 THEN 0 ELSE 1 + BitLength(n \div 2)

BigBitLength(a) == IF a = <<>> THEN 0 ELSE 15 * (Len(a) - 1) + BitLength(a[Len(a)])

\* 2^k
BigPow2(k) == [i \in 1..(k \div 15 + 1) |-> IF i = k \div 15 + 1 THEN 2^(k % 15) ELSE 0]

\* the largest digit k in lo..hi with d * k <= r
RECURSIVE QuotientDigit(_, _, _, _)
QuotientDigit(r, d, lo, hi) ==
    IF lo = hi THEN lo
    ELSE LET mid == (lo + hi + 1) \div 2
         IN IF BigLess(r, BigTrim(BigMulDigit(d, mid, 0))) THEN QuotientDigit(r, d, lo, mid - 1)
            ELSE QuotientDigit(r, d, mid, hi)

\* long division, one digit of n at a time: i digits of n are still to come, st
\* holds the quotient and the remainder of the digits taken so far
RECURSIVE BigDivStep(_, _, _, _)
BigDivStep(n, d, i, st) ==
    IF i = 0 THEN [q |-> BigTrim(st.q), r |-> st.r]
    ELSE LET r2 == BigTrim(<<n[i]>> \o st.r)
             k == QuotientDigit(r2, d, 0, LimbBase - 1)
         IN BigDivStep(n, d, i - 1,
                       [q |-> <<k>> \o st.q, r |-> BigSub(r2, BigTrim(BigMulDigit(d, k, 0)))])

\* quotient and remainder of n by d > 0
BigDivMod(n, d) == BigDivStep(n, d, Len(n), [q |-> <<>>, r |-> <<>>])

\* a \div 2^k
BigShiftRight(a, k) ==
    LET top == SubSeq(a, k \div 15 + 1, Len(a))
        low == 2^(k % 15)
    IN BigTrim([i \in 1..Len(top) |->
                   (top[i] \div low) +
                   (IF i < Len(top) THEN (top[i + 1] % low) * (LimbBase \div low) ELSE 0)])

\* the mantissa and exponent nearest to q * 2^e for a quotient q of 54 or 55 bits;
\* `inexact` tells that the division left a remainder; ties go to the even mantissa
RoundQuotient(q, inexact, e) ==
    LET t == BigBitLength(q) - 53
        low == q[1] % 2^t
        m0 == BigShiftRight(q, t)
        up == \/ low > 2^(t - 1)
              \/ low = 2^(t - 1) /\ (inexact \/ m0[1] % 2 = 1)
        m1 == IF up THEN BigAddCarry(m0, <<>>, 1) ELSE m0
    IN IF BigBitLength(m1) = 54 THEN [m |-> BigShiftRight(m1, 1), e |-> e + t + 1]
       ELSE [m |-> m1, e |-> e + t]

\* the Number nearest to (n / d) * 2^e0 for n, d > 0: the quotient is taken with 54
\* or 55 bits and then rounded
RoundToNumber(n, d, e0) ==
    LET s == 54 - (BigBitLength(n) - BigBitLength(d))
    IN IF s >= 0
       THEN LET dm == BigDivMod(BigMul(n, BigPow2(s)), d)
            IN RoundQuotient(dm.q, dm.r # <<>>, e0 - s)
       ELSE LET dm == BigDivMod(n, BigMul(d, BigPow2(-s)))
            IN RoundQuotient(dm.q, dm.r # <<>>, e0 - s)

\* the Number of a positive integer
NumberOf(k) == RoundToNumber(BigNat(k), <<1>>, 0)
\* x / y and x * y on positive Numbers
NumberDiv(x, y) == RoundToNumber(x.m, y.m, x.e - y.e)
NumberMul(x, y) == RoundToNumber(BigMul(x.m, y.m), <<1>>, x.e + y.e)

\* a result that cuts the decimals off instead of rounding
ToFixed1_Truncated(x) ==
    IF x.e >= 0 THEN BigToInt(BigMul(BigMul(BigNat(10), x.m), BigPow2(x.e)))
    ELSE BigToInt(BigShiftRight(BigMul(BigNat(10), x.m), -x.e))

\* x.toFixed(1) for a positive Number, in tenths: the integer n with n / 10 nearest
\* to x, the larger n of two
ToFixed1(x) ==
    IF x.e >= 0 THEN BigToInt(BigMul(BigMul(BigNat(10), x.m), BigPow2(x.e)))
    ELSE BigToInt(BigShiftRight(BigAddCarry(BigMul(BigNat(20), x.m), BigPow2(-x.e), 0),
                                1 - x.e))

\* calculateBMI (RegistrationForm.tsx:33-40) for optional numbers: no number is <<>>,
\* the number n is <<n>>; the result is in tenths
CalculateBMI(h, w) ==
    IF h # <<>> /\ h # <<0>> /\ w # <<>> /\ w # <<0>> /\ h[1] > 0
    THEN LET heightInMeters == NumberDiv(NumberOf(h[1]), NumberOf(100))
             bmi == NumberDiv(NumberOf(IF w[1] < 0 THEN -w[1] ELSE w[1]),
                              NumberMul(heightInMeters, heightInMeters))
         IN IF w[1] < 0 THEN <<-ToFixed1(bmi)>> ELSE <<ToFixed1(bmi)>>
    ELSE <<>>

(***************************************************************************)
(* RegistrationForm                                                        *)
(***************************************************************************)
\* String.prototype.trim()
IsSpace(ch) == ch \in {" ", "\t", "\n"}

RECURSIVE TrimStart(_)
TrimStart(str) == IF str # <<>> /\ IsSpace(Head(str)) THEN TrimStart(Tail(str)) ELSE str

RECURSIVE TrimEnd(_)
TrimEnd(str) ==
    IF str # <<>> /\ IsSpace(str[Len(str)]) THEN TrimEnd(SubSeq(str, 1, Len(str) - 1)) ELSE str

Trim(str) == TrimEnd(TrimStart(str))

\* str.replace(/\D/g, '')
IsDigit(ch) == ch \in {"0", "1", "2", "3", "4", "5", "6", "7", "8", "9"}
OnlyDigits(str) == SelectSeq(str, IsDigit)

\* the characters of the contact, whatever they are
PhoneDigits_Raw(data) == OrElse(data.emergencyContact, <<>>)

\* phoneDigits (RegistrationForm.tsx:53)
PhoneDigits(data) == OnlyDigits(OrElse(data.emergencyContact, <<>>))

\* the keys validate() puts into newErrors (RegistrationForm.tsx:51-54)
FailedChecks(data) ==
    (IF data.fullName = Undefined \/ Trim(data.fullName) = <<>> THEN {"fullName"} ELSE {})
    \cup (IF data.bloodGroup = Undefined \/ data.bloodGroup = <<>> THEN {"bloodGroup"} ELSE {})
    \cup (IF Len(PhoneDigits(data)) < 10 THEN {"emergencyContact"} ELSE {})

ErrorMessage(k) ==
    CASE k = "fullName" -> "Full name is required"
      [] k = "bloodGroup" -> "Please select a blood group"
      [] k = "emergencyContact" -> "Enter a valid 10-digit phone number"

\* newErrors
NewErrors(data) == [k \in FailedChecks(data) |-> ErrorMessage(k)]

\* the form state of a new registration (RegistrationForm.tsx:13-27); the fields no
\* check and no effect reads are left out
BlankForm ==
    [fullName |-> <<>>, bloodGroup |-> <<>>, emergencyContact |-> <<>>,
     height |-> <<>>, weight |-> <<>>, bmi |-> <<>>, lastUpdated |-> Undefined]

\* initialData: a stored profile whose bmi (30.0) does not fit its height and weight
StoredForm ==
    [fullName |-> <<"A">>, bloodGroup |-> <<"O", "+">>,
     emergencyContact |-> <<"5", "5", "5", "1", "2", "3", "4", "5", "6", "7">>,
     height |-> <<170>>, weight |-> <<65>>, bmi |-> <<300>>, lastUpdated |-> <<"T", "0">>]

\* what a user types into the fields
TypedNames == {<<>>, <<" ", " ">>, <<" ", "A", " ">>}
TypedBloodGroups == {<<>>, <<"O", "+">>}
TypedContacts ==
    {<<>>,
     <<"5", "5", "5", "-", "1", "2", "3", "-", "4", "5", "6">>,
     <<"5", "5", "5", "-", "1", "2", "3", "-", "4", "5", "6", "7">>}
TypedHeights == {<<>>, <<0>>, <<-5>>, <<160>>, <<170>>}
TypedWeights == {<<>>, <<0>>, <<48>>, <<65>>}

\* parseFloat(e.target.value) || undefined (RegistrationForm.tsx:222, 232); no text
\* is <<>>
ParseFloatOrUndefined(typed) == IF typed = <<>> \/ typed = <<0>> THEN <<>> ELSE typed

\* the onChange handlers of the text fields (RegistrationForm.tsx:166, 206, 278)
ChangeText(field, typed) ==
    /\ ~effectPending
    /\ formData' = [formData EXCEPT ![field] = typed]
    /\ onSaveCalls' = <<>>
    /\ lastEvent' = "change"
    /\ UNCHANGED <<errors, effectPending>>

\* handlers of height and weight after which no effect runs
ChangeNumber_NoEffect(field, typed) ==
    /\ ~effectPending
    /\ formData' = [formData EXCEPT ![field] = ParseFloatOrUndefined(typed)]
    /\ onSaveCalls' = <<>>
    /\ lastEvent' = "change"
    /\ UNCHANGED <<errors, effectPending>>

\* the onChange handlers of height and weight (RegistrationForm.tsx:222, 232); the
\* BMI effect is scheduled when the value differs
ChangeNumber(field, typed) ==
    /\ ~effectPending
    /\ formData' = [formData EXCEPT ![field] = ParseFloatOrUndefined(typed)]
    /\ effectPending' = (formData[field] # ParseFloatOrUndefined(typed))
    /\ onSaveCalls' = <<>>
    /\ lastEvent' = "change"
    /\ UNCHANGED errors

\* the BMI effect (RegistrationForm.tsx:42-47); React runs it before it handles the
\* next event
BMIEffect ==
    /\ effectPending
    /\ LET newBmi == CalculateBMI(formData.height, formData.weight)
       IN formData' = IF newBmi # formData.bmi THEN [formData EXCEPT !.bmi = newBmi]
                      ELSE formData
    /\ effectPending' = FALSE
    /\ UNCHANGED <<errors, onSaveCalls, lastEvent>>

\* handleSubmit with validate (RegistrationForm.tsx:49-57, 78-83); onSaveCalls holds
\* the arguments of the onSave calls the latest handler made
HandleSubmit ==
    /\ ~effectPending
    /\ errors' = NewErrors(formData)
    /\ onSaveCalls' = IF DOMAIN NewErrors(formData) = {}
                      THEN <<[formData EXCEPT !.lastUpdated = <<"T", "1">>]>>
                      ELSE <<>>
    /\ lastEvent' = "submit"
    /\ UNCHANGED <<formData, effectPending>>

(***************************************************************************)
(* CareChainView: the filtered list (part_001:135-141)                     *)
(***************************************************************************)
\* String.prototype.toLowerCase() on the letters of the model
ToLowerCase(str) ==
    [i \in 1..Len(str) |->
        CASE str[i] = "A" -> "a" [] str[i] = "B" -> "b" [] OTHER -> str[i]]

\* String.prototype.includes(search)
Includes(str, search) ==
    \E i \in 0..(Len(str) - Len(search)) : SubSeq(str, i + 1, i + Len(search)) = search

\* a predicate that looks at the title and the summary only
FilterKeeps_NoNotes(e, f, term) ==
    LET search == ToLowerCase(term) IN
    /\ (f = "All" \/ e.category = f)
    /\ \/ Includes(ToLowerCase(e.title), search)
       \/ e.summary \notin {Undefined, <<>>} /\ Includes(ToLowerCase(e.summary), search)

\* the predicate of events.filter (part_001:136-140); e.notes && ... and
\* e.summary && ... skip a field that is undefined or ''
FilterKeeps(e, f, term) ==
    LET search == ToLowerCase(term) IN
    /\ (f = "All" \/ e.category = f)
    /\ \/ Includes(ToLowerCase(e.title), search)
       \/ e.notes \notin {Undefined, <<>>} /\ Includes(ToLowerCase(e.notes), search)
       \/ e.summary \notin {Undefined, <<>>} /\ Includes(ToLowerCase(e.summary), search)

\* filteredEvents (part_001:135)
FilteredEvents(evs, f, term) == SelectSeq(evs, LAMBDA e : FilterKeeps(e, f, term))

\* events of a loaded timeline, with the fields the filter reads (part_000:14-24):
\* `a` occurs in the title of the first, only in the notes of the second, only in
\* the summary of the third and nowhere in the fourth
FilterPool ==
    << [id |-> StrId(<<"1">>), date |-> 1, lastModified |-> Undefined, category |-> "Labs",
        title |-> <<"A", "b">>, notes |-> Undefined, summary |-> <<>>],
       [id |-> StrId(<<"2">>), date |-> 1, lastModified |-> Undefined,
        category |-> "Surgeries", title |-> <<"b">>, notes |-> <<"x", "A">>,
        summary |-> <<>>],
       [id |-> StrId(<<"3">>), date |-> 1, lastModified |-> Undefined, category |-> "Labs",
        title |-> <<"x">>, notes |-> <<>>, summary |-> <<"B", "a">>],
       [id |-> StrId(<<"4">>), date |-> 1, lastModified |-> Undefined,
        category |-> "Prescriptions", title |-> <<"x">>, notes |-> Undefined,
        summary |-> Undefined] >>

FilterTimelines ==
    {<<>>, FilterPool}
    \cup { <<FilterPool[i]>> : i \in 1..4 }
    \cup { <<FilterPool[i], FilterPool[j]>> : i, j \in 1..4 }

\* setFilter(cat) and the render that follows (part_001:20, 135)
SetFilter(cat) ==
    /\ filter' = cat
    /\ filteredEvents' = FilteredEvents(events, cat, searchTerm)
    /\ UNCHANGED searchTerm

\* setSearchTerm(e.target.value) and the render that follows (part_001:21, 135)
SetSearchTerm(term) ==
    /\ searchTerm' = term
    /\ filteredEvents' = FilteredEvents(events, filter, term)
    /\ UNCHANGED filter

(***************************************************************************)
(* CareChainView: the summary fetch (part_001:84-96)                       *)
(*                                                                         *)
(* fetchPc: "none"       mounted, no effect has run                        *)
(*          "scheduled"  the load effect has set `events`; the summary     *)
(*                       effect runs after the render that follows         *)
(*          "awaiting"   fetchSummary awaits getCareChainSummary (line 91) *)
(*          "done"       fetchSummary has returned                         *)
(*          "rejected"   the awaited promise rejected: fetchSummary left   *)
(*                       line 91 with the error, lines 92-93 did not run   *)
(* The view's invocation of getCareChainSummary is invocation 1 of `calls`.  *)
(***************************************************************************)
ViewEmptySummary == "No records logged / Timeline empty / Log a new event"

\* the effects of the mount (part_001:55-63 and 84-96): the load effect sets `events`
\* when storage holds a text that parses, and fetchSummary, which still sees the
\* initial [], sets the literal
MountEffects ==
    /\ fetchPc = "none"
    /\ events' = LoadEvents(stTimeline)
    /\ eventsShape' = LoadShape(stTimeline)
    /\ lastUpdated' = LoadLastUpdated(stLastUpdated)
    /\ summary' = ViewEmptySummary
    /\ fetchPc' = IF stTimeline.kind # "none" /\ JSONParse(stTimeline).ok
                  THEN "scheduled" ELSE "done"
    /\ UNCHANGED <<loadingSummary, calls, insightCache, summaryCache,
                   stTimeline, stLastUpdated, reloadPending, clock, wiped, lastOp>>

\* the summary effect after `events` was set: fetchSummary up to its await
\* (part_001:85-91)
FetchSummary ==
    /\ fetchPc = "scheduled"
    /\ IF Len(events) = 0
       THEN /\ summary' = ViewEmptySummary
            /\ fetchPc' = "done"
            /\ UNCHANGED <<loadingSummary, calls>>
       ELSE /\ loadingSummary' = TRUE
            /\ calls' = [calls EXCEPT ![1] = Begin("summary", events)]
            /\ fetchPc' = "awaiting"
            /\ UNCHANGED summary
    /\ UNCHANGED <<insightCache, summaryCache, tlVars>>

\* the awaited promise is fulfilled: lines 92-93
FetchResumes ==
    /\ fetchPc = "awaiting"
    /\ calls[1].pc = "returned"
    /\ summary' = calls[1].result
    /\ loadingSummary' = FALSE
    /\ fetchPc' = "done"
    /\ UNCHANGED <<svcVars, tlVars>>

\* the awaited promise is rejected: the await throws, nothing catches it
FetchThrows ==
    /\ fetchPc = "awaiting"
    /\ calls[1].pc = "rejected"
    /\ fetchPc' = "rejected"
    /\ UNCHANGED <<summary, loadingSummary, svcVars, tlVars>>

NoOp == [kind |-> "none", id |-> StrId(<<>>), confirmed |-> FALSE, matched |-> 0,
         wrote |-> "none"]

\* the state of each part before it is used
ServiceStart ==
    /\ insightCache = <<>>
    /\ summaryCache = <<>>
    /\ calls = [c \in CallIds |-> IdleCall]

TimelineUnused ==
    /\ stTimeline = NoItem
    /\ stLastUpdated = <<>>
    /\ events = <<>>
    /\ eventsShape = "array"
    /\ lastUpdated = <<>>
    /\ reloadPending = FALSE
    /\ clock = 1
    /\ wiped = {}
    /\ lastOp = NoOp

CardUnused ==
    /\ cardData = NoCard
    /\ cardParams = <<>>
    /\ cardUrl = <<>>

FormUnused ==
    /\ formData = BlankForm
    /\ errors = <<>>
    /\ effectPending = FALSE
    /\ onSaveCalls = <<>>
    /\ lastEvent = "mount"

\* the initial value of `summary`
NoSummary == "null"

\* the view before it has loaded events (part_001:20-23): filter 'All', no search
\* term, no summary; callWithRetry not invoked on its own
ViewUnused ==
    /\ filter = "All"
    /\ searchTerm = <<>>
    /\ filteredEvents = <<>>
    /\ summary = NoSummary
    /\ loadingSummary = FALSE
    /\ fetchPc = "none"
    /\ helper = IdleHelper

Init == ServiceStart /\ TimelineUnused /\ CardUnused /\ FormUnused /\ ViewUnused

Next ==
    \/ \E c \in CallIds, op \in Ops : \E inp \in InputsOf(op) :
            Invoke(c, op, inp) /\ UNCHANGED <<tlVars, cardVars, formVars, filterVars, fetchVars, helper>>
    \/ \E c \in CallIds, t \in Texts : Fulfil(c, t) /\ UNCHANGED <<tlVars, cardVars, formVars, filterVars, fetchVars, helper>>
    \/ \E c \in CallIds, e \in Errors : Reject(c, e) /\ UNCHANGED <<tlVars, cardVars, formVars, filterVars, fetchVars, helper>>
    \/ \E c \in CallIds : TimerFires(c) /\ UNCHANGED <<tlVars, cardVars, formVars, filterVars, fetchVars, helper>>

Spec == Init /\ [][Next]_vars

TimelineInit ==
    /\ ServiceStart /\ CardUnused /\ FormUnused /\ ViewUnused
    /\ stTimeline \in InitialStores
    /\ stLastUpdated = IF stTimeline.kind = "none" THEN <<>> ELSE <<"F", "9">>
    /\ events = LoadEvents(stTimeline)
    /\ eventsShape = LoadShape(stTimeline)
    /\ lastUpdated = LoadLastUpdated(stLastUpdated)
    /\ reloadPending = FALSE
    /\ clock = 1
    /\ wiped = {}
    /\ lastOp = NoOp

TimelineNext ==
    \/ \E id \in DeleteArgs, confirmed \in BOOLEAN, fail \in Failures :
        \E now \in IF confirmed THEN clock..MaxClock ELSE {clock} :
            DeleteMedicalRecord(id, confirmed, now, fail) /\ UNCHANGED <<svcVars, cardVars, formVars, filterVars, fetchVars, helper>>
    \/ \E date \in 0..MaxClock, now \in clock..MaxClock, fail \in Failures :
            HandleSaveEntry(date, now, fail) /\ UNCHANGED <<svcVars, cardVars, formVars, filterVars, fetchVars, helper>>
    \/ Reload /\ UNCHANGED <<svcVars, cardVars, formVars, filterVars, fetchVars, helper>>

TimelineSpec == TimelineInit /\ [][TimelineNext]_vars

CardInit ==
    /\ ServiceStart /\ TimelineUnused /\ FormUnused /\ ViewUnused
    /\ cardData \in CardProfiles
    /\ cardParams = <<>>
    /\ cardUrl = <<>>

CardNext ==
    \E available \in BOOLEAN : QREffect(available) /\ UNCHANGED <<svcVars, tlVars, formVars, filterVars, fetchVars, helper>>

CardSpec == CardInit /\ [][CardNext]_vars

\* the form mounts blank or with a stored profile; the BMI effect runs after the
\* first render
FormInit ==
    /\ ServiceStart /\ TimelineUnused /\ CardUnused /\ ViewUnused
    /\ formData \in {BlankForm, StoredForm}
    /\ errors = <<>>
    /\ effectPending = TRUE
    /\ onSaveCalls = <<>>
    /\ lastEvent = "mount"

FormNext ==
    \/ \E typed \in TypedNames :
            ChangeText("fullName", typed) /\ UNCHANGED <<svcVars, tlVars, cardVars, filterVars, fetchVars, helper>>
    \/ \E typed \in TypedBloodGroups :
            ChangeText("bloodGroup", typed) /\ UNCHANGED <<svcVars, tlVars, cardVars, filterVars, fetchVars, helper>>
    \/ \E typed \in TypedContacts :
            ChangeText("emergencyContact", typed) /\ UNCHANGED <<svcVars, tlVars, cardVars, filterVars, fetchVars, helper>>
    \/ \E typed \in TypedHeights :
            ChangeNumber("height", typed) /\ UNCHANGED <<svcVars, tlVars, cardVars, filterVars, fetchVars, helper>>
    \/ \E typed \in TypedWeights :
            ChangeNumber("weight", typed) /\ UNCHANGED <<svcVars, tlVars, cardVars, filterVars, fetchVars, helper>>
    \/ BMIEffect /\ UNCHANGED <<svcVars, tlVars, cardVars, filterVars, fetchVars, helper>>
    \/ HandleSubmit /\ UNCHANGED <<svcVars, tlVars, cardVars, filterVars, fetchVars, helper>>

FormSpec == FormInit /\ [][FormNext]_vars

\* the view has loaded a timeline and rendered it with filter 'All' and no search term
FilterInit ==
    /\ ServiceStart /\ CardUnused /\ FormUnused
    /\ summary = NoSummary
    /\ loadingSummary = FALSE
    /\ fetchPc = "none"
    /\ helper = IdleHelper
    /\ events \in FilterTimelines
    /\ stTimeline = JSONStringify(events)
    /\ stLastUpdated = <<>>
    /\ eventsShape = "array"
    /\ lastUpdated = <<>>
    /\ reloadPending = FALSE
    /\ clock = 1
    /\ wiped = {}
    /\ lastOp = NoOp
    /\ filter = "All"
    /\ searchTerm = <<>>
    /\ filteredEvents = FilteredEvents(events, "All", <<>>)

FilterNext ==
    \/ \E cat \in {"All", "Labs", "Surgeries", "Prescriptions"} :
            SetFilter(cat)
            /\ UNCHANGED <<svcVars, tlVars, cardVars, formVars, fetchVars, helper>>
    \/ \E term \in {<<>>, <<"a">>, <<"A">>, <<"B">>, <<"a", "B">>, <<"b", "a">>, <<"x">>} :
            SetSearchTerm(term)
            /\ UNCHANGED <<svcVars, tlVars, cardVars, formVars, fetchVars, helper>>

FilterSpec == FilterInit /\ [][FilterNext]_vars

\* the view has mounted with its initial state; no effect has run
FetchInit ==
    /\ ServiceStart /\ CardUnused /\ FormUnused /\ ViewUnused
    /\ stTimeline \in (InitialStores \ {ObjectPayload})
                          \cup { JSONStringify(evs) : evs \in EventLists }
    /\ stLastUpdated = IF stTimeline.kind = "none" THEN <<>> ELSE <<"F", "9">>
    /\ events = <<>>
    /\ eventsShape = "array"
    /\ lastUpdated = <<>>
    /\ reloadPending = FALSE
    /\ clock = 1
    /\ wiped = {}
    /\ lastOp = NoOp

FetchNext ==
    \/ MountEffects /\ UNCHANGED <<cardVars, formVars, filterVars, helper>>
    \/ FetchSummary /\ UNCHANGED <<cardVars, formVars, filterVars, helper>>
    \/ \E t \in Texts :
            Fulfil(1, t)
            /\ UNCHANGED <<tlVars, cardVars, formVars, filterVars, fetchVars, helper>>
    \/ \E e \in Errors :
            Reject(1, e)
            /\ UNCHANGED <<tlVars, cardVars, formVars, filterVars, fetchVars, helper>>
    \/ TimerFires(1)
            /\ UNCHANGED <<tlVars, cardVars, formVars, filterVars, fetchVars, helper>>
    \/ FetchResumes /\ UNCHANGED <<cardVars, formVars, filterVars, helper>>
    \/ FetchThrows /\ UNCHANGED <<cardVars, formVars, filterVars, helper>>

FetchSpec == FetchInit /\ [][FetchNext]_vars

RetryNext ==
    \/ \E r \in 0..MaxRetries, d \in {DefaultDelay, 500} :
            CallWithRetry(r, d)
            /\ UNCHANGED <<svcVars, tlVars, cardVars, formVars, filterVars, fetchVars>>
    \/ \E t \in Texts :
            FnFulfils(t)
            /\ UNCHANGED <<svcVars, tlVars, cardVars, formVars, filterVars, fetchVars>>
    \/ \E e \in Errors :
            FnRejects(e)
            /\ UNCHANGED <<svcVars, tlVars, cardVars, formVars, filterVars, fetchVars>>
    \/ HelperTimerFires
            /\ UNCHANGED <<svcVars, tlVars, cardVars, formVars, filterVars, fetchVars>>

\* an attempt that was started settles, a timer that was set fires
RetrySpec ==
    /\ Init /\ [][RetryNext]_vars
    /\ WF_helper((\E t \in Texts : FnFulfils(t)) \/ (\E e \in Errors : FnRejects(e)))
    /\ WF_helper(HelperTimerFires)

(***************************************************************************)
(* Properties of the service operations                                    *)
(***************************************************************************)
Started(c) == calls[c].pc # "idle"
CallKey(c) == KeyOf(calls[c].op, calls[c].inp)
SameKey(c, d) == calls[c].op = calls[d].op /\ CallKey(c) = CallKey(d)
Fresh(c) == calls[c].how = "fresh"
FellBack(c) == calls[c].how \in {"quotaFallback", "genericFallback"}
LastErr(c) == calls[c].errs[Len(calls[c].errs)]

\* the error carries a quota signal: status 429, or a marker in its serialisation
QuotaSignal(e) == e.status = 429 \/ e.json \in {"429", "resource_exhausted"}

\* callWithRetry classified the error (line 18 ran) and found no quota signal
ClassifiedNotQuota(e) == e.json = "{}" /\ e.status # 429

\* C1: getHealthInsight and getCareChainSummary never fail: whatever the external
\* call does, no invocation ends with its promise rejected.
C1_NeverFails == \A c \in CallIds : calls[c].pc # "rejected"

\* C2: per operation and cache key, at most one invocation gets a successful
\* response from the external service.
C2_AtMostOnce ==
    \A c, d \in CallIds : (c # d /\ Fresh(c) /\ Fresh(d)) => ~SameKey(c, d)

\* C3: once an invocation has completed with a successful response, an invocation
\* with the same input made now returns the same text from the cache, without a
\* request.
C3_LaterCallSameText ==
    \A c \in CallIds :
        Fresh(c) =>
            LET later == Begin(calls[c].op, calls[c].inp)
            IN later.how = "hit" /\ later.attempts = 0 /\ later.result = calls[c].result

\* C4: an answer served from the cache was produced for an input with the same
\* fingerprint fields: inputs that differ in a fingerprint field never share it.
C4_NoAnswerAcrossFingerprints ==
    \A c \in CallIds :
        calls[c].how = "hit" =>
            \E d \in CallIds :
                /\ Fresh(d) /\ calls[d].op = calls[c].op
                /\ FingerprintOf(calls[d].op, calls[d].inp) = FingerprintOf(calls[c].op, calls[c].inp)

C6_RetryThenSuccess ==
    \A c \in CallIds :
        (Len(calls[c].errs) >= 1 /\ QuotaSignal(calls[c].errs[1])) =>
            /\ Finished(c) => calls[c].attempts = 2
            /\ (Len(calls[c].errs) = 1 /\ calls[c].response # "none") =>
                    /\ calls[c].pc = "returned"
                    /\ calls[c].result = TextOr(calls[c].response, DefaultText(calls[c].op))
                    /\ calls[c].attempts = 2
                    /\ calls[c].waited = <<DefaultDelay>>
                    /\ CallKey(c) \in DOMAIN Cache(calls[c].op)

C6_Witness ==
    \E c \in CallIds :
        /\ calls[c].errs = <<ApiQuotaError>> /\ calls[c].response = "t1"
        /\ calls[c].result = "t1" /\ calls[c].attempts = 2
        /\ Cache(calls[c].op)[CallKey(c)] = "t1"

\* C7: with the default budget of 1, an invocation whose two attempts both failed
\* with a quota error returns the quota fallback text of its operation.
C7_QuotaFallback ==
    \A c \in CallIds :
        (/\ Len(calls[c].errs) = 2
         /\ QuotaSignal(calls[c].errs[1]) /\ QuotaSignal(calls[c].errs[2])) =>
            (calls[c].pc = "returned" /\ calls[c].result = QuotaText(calls[c].op))

C9_EmptyTimeline ==
    \A c \in CallIds :
        (Started(c) /\ calls[c].op = "summary" /\ Len(calls[c].inp) = 0) =>
            /\ calls[c].pc = "returned"
            /\ calls[c].result = SummaryEmpty
            /\ calls[c].how = "empty"
            /\ calls[c].attempts = 0
            /\ ~calls[c].wrote

C9_Witness ==
    \E c \in CallIds :
        /\ calls[c].op = "summary" /\ calls[c].inp = <<>> /\ calls[c].result = SummaryEmpty
        /\ summaryCache # <<>>

\* callWithRetry classified the error as a quota error: line 17 gave a text and line
\* 18 found a marker in it or the status 429
ClassifiedQuota(e) == e.json \notin {"throws", "undefined"} /\ QuotaSignal(e)

\* C25: an invocation that ended in the catch block of its operation with an error
\* that callWithRetry had classified as a quota error returned the quota text of
\* its operation.
C25_SameClassification ==
    \A c \in CallIds :
        (FellBack(c) /\ ClassifiedQuota(LastErr(c))) => calls[c].result = QuotaText(calls[c].op)

\* C26: once an invocation got a response with an empty text, it has returned the
\* default literal of its operation, and an invocation with the same input made
\* now returns that literal from the cache, without a request.
C26_EmptyResponseCached ==
    \A c \in CallIds :
        (Fresh(c) /\ calls[c].response = "") =>
            /\ calls[c].result = DefaultText(calls[c].op)
            /\ Begin(calls[c].op, calls[c].inp).how = "hit"
            /\ Begin(calls[c].op, calls[c].inp).result = DefaultText(calls[c].op)

(***************************************************************************)
(* Properties of the persisted timeline                                    *)
(***************************************************************************)
\* the stored events whose id, as a string, is not the string of `id`
RECURSIVE Without(_, _)
Without(evs, id) ==
    IF Len(evs) = 0 THEN <<>>
    ELSE IF JSString(Head(evs).id) = JSString(id) THEN Without(Tail(evs), id)
    ELSE <<Head(evs)>> \o Without(Tail(evs), id)

\* storage holds an event whose id, as a string, is the string of `id`
Known(id) ==
    /\ stTimeline.kind = "array"
    /\ \E i \in 1..Len(stTimeline.items) : JSString(stTimeline.items[i].id) = JSString(id)

\* A step of window.deleteMedicalRecord(lastOp'.id) in which the prompt was accepted:
\* no other step records a confirmed delete (a save records a save, a reload clears
\* reloadPending)
ConfirmedDeleteStep ==
    /\ lastOp'.kind = "delete" /\ lastOp'.confirmed
    /\ reloadPending'
    /\ <<stTimeline', stLastUpdated', lastOp'>> # <<stTimeline, stLastUpdated, lastOp>>

\* C10: a confirmed delete of a known id leaves in storage the previous collection
\* without the events of that id (ids compared as strings), every other event
\* unchanged and in the same order.
C10_DeleteRemovesExactly ==
    [][(ConfirmedDeleteStep /\ Known(lastOp'.id)) =>
          /\ stTimeline'.kind = "array"
          /\ stTimeline'.items = Without(stTimeline.items, lastOp'.id)
          /\ Len(stTimeline'.items) < Len(stTimeline.items)]_vars

C10_Witness ==
    /\ lastOp.kind = "delete" /\ lastOp.confirmed /\ lastOp.matched = 1
    /\ lastOp.id = StrId(<<"8">>)
    /\ stTimeline.kind = "array" /\ Len(stTimeline.items) = 2
    /\ stTimeline.items[1].id = StrId(<<"9">>) /\ stTimeline.items[2].id = StrId(<<"7">>)

\* C11: a confirmed delete whose id matches no stored event leaves both storage
\* keys, the collection and the last-updated marker, exactly as they were.
C11_UnknownDeleteNoOp ==
    [][(lastOp'.kind = "delete" /\ lastOp'.confirmed /\ lastOp'.matched = 0) =>
          (stTimeline' = stTimeline /\ stLastUpdated' = stLastUpdated)]_vars

\* C12: once a confirmed delete has removed an id from storage, no load returns an
\* event with that id, whatever saves, deletes and reloads follow (a save that
\* creates the id anew aside).
C12_DeletionPermanent ==
    \A x \in wiped :
        \A i \in 1..Len(LoadEvents(stTimeline)) : JSString(LoadEvents(stTimeline)[i].id) # x

\* C13: a delete whose prompt was declined writes neither storage key and triggers
\* no reload, and storage changes only in a save or in a delete whose prompt was
\* accepted.
C13_DeclineWritesNothing ==
    [][/\ (lastOp' # lastOp /\ lastOp'.kind = "delete" /\ ~lastOp'.confirmed) =>
              /\ UNCHANGED <<stTimeline, stLastUpdated, reloadPending>>
              /\ lastOp'.wrote = "none"
       /\ (<<stTimeline', stLastUpdated'>> # <<stTimeline, stLastUpdated>>) =>
              (lastOp'.kind = "save" \/ (lastOp'.kind = "delete" /\ lastOp'.confirmed))]_vars

C13_Witness ==
    /\ lastOp.kind = "delete" /\ ~lastOp.confirmed /\ lastOp.matched = 1
    /\ Known(lastOp.id) /\ Len(stTimeline.items) = 3
    /\ ~reloadPending

IsDescending(evs) == \A i \in 1..(Len(evs) - 1) : evs[i].date >= evs[i + 1].date

\* a step of handleSaveEntry that wrote the collection
SaveStep ==
    /\ lastOp'.kind = "save" /\ lastOp'.wrote # "none"
    /\ ~(reloadPending /\ ~reloadPending')

\* C14: the persisted collection and the loaded list are always in descending order
\* of date, and a save puts the new entry before the loaded events of the same or
\* an earlier date and after those of a later date, the loaded events keeping
\* their order.
C14_SortedByDate ==
    /\ [](/\ stTimeline.kind = "array" => IsDescending(stTimeline.items)
          /\ IsDescending(events))
    /\ [][SaveStep =>
            \E p \in 1..(Len(events) + 1) :
                LET new == stTimeline'.items IN
                /\ Len(new) = Len(events) + 1
                /\ new[p].id = lastOp'.id
                /\ \A i \in 1..(p - 1) : new[i] = events[i] /\ events[i].date > new[p].date
                /\ \A i \in p..Len(events) :
                        new[i + 1] = events[i] /\ events[i].date <= new[p].date]_vars

\* from the empty store: two saves of the same date, the later entry first
C14_Witness ==
    /\ lastOp.kind = "save" /\ stTimeline.kind = "array" /\ Len(stTimeline.items) = 2
    /\ stTimeline.items[1].id = StrId(<<"2">>) /\ stTimeline.items[2].id = StrId(<<"1">>)
    /\ stTimeline.items[1].date = stTimeline.items[2].date

\* C16: whenever storage holds no array of events (no item, a text that is no JSON,
\* JSON that is no array), the list the view has loaded is the empty list.
C16_LoadFailsSoft ==
    (~reloadPending /\ stTimeline.kind # "array") => (eventsShape = "array" /\ events = <<>>)

\* C17: no handler ends with one of the two keys written and the other not.
C17_AtomicWrite == lastOp.wrote # "timeline"

\* C20: after a save, storage holds exactly one event with the id of the new entry.
C20_OnePerId ==
    (lastOp.kind = "save" /\ lastOp.wrote # "none") =>
        Cardinality({ i \in 1..Len(stTimeline.items) :
                        JSString(stTimeline.items[i].id) = JSString(lastOp.id) }) = 1

\* C23: whenever a save writes the collection, the view's list is the stored
\* collection, and the collection written is the stored one with the new entry
\* put in at one position: no stored event is lost and none comes back.
C23_SaveOnlyAppends ==
    [][SaveStep =>
          /\ eventsShape = "array" /\ events = LoadEvents(stTimeline)
          /\ \E p \in 1..Len(stTimeline'.items) :
                /\ stTimeline'.items[p].id = lastOp'.id
                /\ SubSeq(stTimeline'.items, 1, p - 1)
                     \o SubSeq(stTimeline'.items, p + 1, Len(stTimeline'.items))
                   = LoadEvents(stTimeline)]_vars

(***************************************************************************)
(* Properties of the card URL                                              *)
(***************************************************************************)
\* the value the card gives a key when the profile field is missing or falsy
Sentinel(k) ==
    CASE k = "n" -> <<"U", "n", "k", "n", "o", "w", "n">>
      [] k \in {"a", "ht", "wt", "bmi"} -> <<"N", "/", "A">>
      [] k = "bg" -> <<"-", "-">>
      [] k \in {"al", "cc", "m", "s", "ec"} -> <<"N", "o", "n", "e">>

\* C15: the card URL has no empty query value, and for the profile with every
\* field empty each of its 11 values is a sentinel (Unknown, N/A, --, None).
C15_NoEmptyValue ==
    cardUrl # <<>> =>
        /\ \A i \in 1..Len(CardKeys) : cardParams[CardKeys[i]] # <<>>
        /\ cardData = NoCard =>
                \A i \in 1..Len(CardKeys) :
                    cardParams[CardKeys[i]] \in { Sentinel(CardKeys[j]) : j \in 1..Len(CardKeys) }


BlankName == \A i \in 1..Len(formData.fullName) : formData.fullName[i] = " "
DigitCount ==
    Cardinality({i \in 1..Len(formData.emergencyContact) :
                     formData.emergencyContact[i] \in {"0", "1", "2", "3", "4", "5", "6", "7", "8", "9"}})
FailingFields ==
    {k \in {"fullName", "bloodGroup", "emergencyContact"} :
        \/ k = "fullName" /\ BlankName
        \/ k = "bloodGroup" /\ Len(formData.bloodGroup) = 0
        \/ k = "emergencyContact" /\ DigitCount < 10}

\* C19: after a submit, errors holds exactly the failing fields, and onSave was
\* called once, with the form data and a fresh lastUpdated, iff no field fails
C19_SubmitValidates ==
    lastEvent = "submit" =>
        /\ DOMAIN errors = FailingFields
        /\ IF FailingFields = {}
           THEN /\ Len(onSaveCalls) = 1
                /\ onSaveCalls[1].lastUpdated = <<"T", "1">>
                /\ \A f \in {"fullName", "bloodGroup", "emergencyContact", "height", "weight", "bmi"} :
                       onSaveCalls[1][f] = formData[f]
           ELSE onSaveCalls = <<>>

\* one submit was refused for the contact alone, which has eleven characters and
\* nine digits
C19_Witness ==
    /\ lastEvent = "submit"
    /\ DOMAIN errors = {"emergencyContact"}
    /\ Len(formData.emergencyContact) = 11
    /\ onSaveCalls = <<>>

\* a submit went through
C19_SavedWitness == lastEvent = "submit" /\ Len(onSaveCalls) = 1


\* C24: every profile handed to onSave carries the bmi that calculateBMI gives for
\* its height and weight, and carries one only if its height is present and
\* positive and its weight is present
C24_SavedBmiConsistent ==
    \A i \in 1..Len(onSaveCalls) :
        LET p == onSaveCalls[i] IN
        /\ p.bmi = CalculateBMI(p.height, p.weight)
        /\ p.bmi # <<>> => (p.height # <<>> /\ p.height[1] > 0 /\ p.weight # <<>>)

\* the stored profile with the bmi 30.0 was opened, height and weight were edited
\* to 160 and 48 and the form was submitted
C24_Witness ==
    /\ Len(onSaveCalls) = 1
    /\ onSaveCalls[1].lastUpdated = <<"T", "1">>
    /\ onSaveCalls[1].fullName = <<"A">>
    /\ onSaveCalls[1].height = <<160>> /\ onSaveCalls[1].weight = <<48>>
    /\ onSaveCalls[1].bmi = <<187>>

\* the stored profile was submitted as it was opened: its bmi was put right
C24_StaleWitness ==
    /\ Len(onSaveCalls) = 1
    /\ onSaveCalls[1].height = <<170>> /\ onSaveCalls[1].weight = <<65>>
    /\ onSaveCalls[1].bmi = <<225>>

(***************************************************************************)
(* Properties of the filtered list                                         *)
(***************************************************************************)
\* two characters are the same letter, whatever their case
SameLetter(a, b) == a = b \/ {a, b} = {"a", "A"} \/ {a, b} = {"b", "B"}

\* the term occurs in the field at some position, case ignored; a field that is
\* absent holds nothing
Occurs(term, field) ==
    /\ field # Undefined
    /\ \E k \in 0..(Len(field) - Len(term)) :
            \A j \in 1..Len(term) : SameLetter(field[k + j], term[j])

\* the positions of the loaded events that the filter and the term select
Selected ==
    { i \in 1..Len(events) :
        /\ filter = "All" \/ events[i].category = filter
        /\ \/ Occurs(searchTerm, events[i].title)
           \/ Occurs(searchTerm, events[i].notes)
           \/ Occurs(searchTerm, events[i].summary) }

\* C21: the rendered list holds exactly the selected events, in the order of the
\* loaded list: its j-th event is the loaded event at the j-th selected position;
\* with filter 'All' and an empty term it is the loaded list
C21_FilterExact ==
    /\ Len(filteredEvents) = Cardinality(Selected)
    /\ \A i \in Selected :
            filteredEvents[Cardinality({k \in Selected : k <= i})] = events[i]
    /\ (filter = "All" /\ searchTerm = <<>>) => filteredEvents = events

\* the term `a` with the four events loaded: the second is kept for its notes alone,
\* the fourth is dropped
C21_Witness ==
    /\ events = FilterPool /\ filter = "All" /\ searchTerm = <<"a">>
    /\ filteredEvents = <<FilterPool[1], FilterPool[2], FilterPool[3]>>


(***************************************************************************)
(* Properties of callWithRetry                                             *)
(***************************************************************************)
\* C22: an invocation of callWithRetry with budget r and delay d comes to an end;
\* it never makes more than r + 1 attempts, every attempt but the first follows a
\* failure carrying a quota signal, and the wait before the k-th retry is
\* d * 2^(k-1)
C22_RetryTerminates ==
    /\ [](/\ helper.attempts <= helper.budget + 1
          /\ Len(helper.waited) = helper.attempts - (IF helper.pc = "idle" THEN 0 ELSE 1)
          /\ \A k \in 1..Len(helper.waited) :
                /\ helper.waited[k] = helper.first * 2^(k - 1)
                /\ k <= Len(helper.errs) /\ QuotaSignal(helper.errs[k])
          /\ helper.pc = "backoff" => QuotaSignal(helper.errs[Len(helper.errs)]))
    /\ (helper.pc # "idle") ~> (helper.pc \in {"fulfilled", "rejected"})

\* budget 2 and the default delay: three attempts, the waits 2000 and 4000, and the
\* third failure leaves
C22_Witness ==
    /\ helper.pc = "rejected" /\ helper.budget = 2 /\ helper.attempts = 3
    /\ helper.waited = <<2000, 4000>> /\ helper.thrown = ApiQuotaError

\* the single default retry after 2000 ms
C22_DefaultWitness ==
    /\ helper.pc = "fulfilled" /\ helper.budget = DefaultRetries /\ helper.attempts = 2
    /\ helper.waited = <<2000>>


(***************************************************************************)
(* Properties of the summary fetch                                         *)
(***************************************************************************)
\* C27: no fetch that has set loadingSummary ends without setting it back: the fetch
\* never leaves its await with an error, and once it has returned loadingSummary
\* is false and a summary text is installed; with an empty timeline the text is
\* the view's own literal and the service was not invoked.
C27_LoadingSettles ==
    /\ fetchPc # "rejected"
    /\ fetchPc = "done" =>
            /\ ~loadingSummary
            /\ summary # NoSummary
            /\ events = <<>> => (summary = ViewEmptySummary /\ ~Started(1))
    /\ loadingSummary => fetchPc = "awaiting"

============================================================================
